---- MODULE Spec2Model ----
(***************************************************************************)
(* Model of the citation dashboard (src/app.py): the collaborator-network  *)
(* builder, the citation-concentration index, the paginated fetchers, the  *)
(* selected-author pipeline, the author search, the functions over works   *)
(* (author position, venue, collaborator charts) and the search and        *)
(* selection part of the script.                                           *)
(***************************************************************************)
EXTENDS Integers, Sequences, FiniteSets, TLC

VARIABLES
  \* ---- get_collaborator_network (src/app.py:508-562)
  pc,                 \* position of the run: "start", "call", "loop", "done"
  max_depth,          \* parameter max_depth
  works,              \* parameter works: the seed author's works batch
  G_nodes,            \* G's nodes: identifier -> [name, level]
  G_edges,            \* G's edges: sets {u, v}
  processed_authors,  \* the closure's visited set
  stack,              \* call stack of add_collaborations, innermost last
  requests,           \* history: the remote works queries issued, in order
  tallied,            \* history: the batch tallied last, with its source and level
  inserted,           \* history: the G.add_node calls made, in order
  \* ---- calculate_citation_concentration_index (src/app.py:480-494)
  cci_pc,             \* "call" before the call, "returned" after it
  citation_counts,    \* the 'Incoming citations' column handed to the call
  cci_n,              \* the value returned
  \* ---- get_works, get_citing_works_with_progress (src/app.py:93-146)
  fetch_pc,           \* which function runs ("get_works", "get_citing_works"), or "returned"
  work_ids,           \* get_citing_works_with_progress: the identifiers of the works
  work_index,         \* get_citing_works_with_progress: i + 1, the position of the work being queried
  page,               \* the page requested next
  fetched,            \* the list accumulated (works, citing_works) and returned
  responses,          \* history: [query, page, status, n] of every request made
  \* ---- the selected-author pipeline (src/app.py:717-822, 877-878)
  dash_pc,            \* position of the script in the pipeline, "raised" after a fault
  selected_author_data, \* author_data = get_author_data(author_id): a dict, or None
  author_works,       \* works = get_works(author_data['id'])
  citing_works,       \* get_citing_works_with_progress(works)
  citing_df,          \* the rows (Title, Venue, Incoming citations, Is Self)
  c_index,            \* the citation-concentration index shown
  ch2_index,          \* the c/h2 index shown, a fraction [num, den]
  self_citation_rate, \* the self-citation rate shown, in hundredths of a percent
  fault,              \* the exception that ended the script run, None when none did
  shown,              \* the st.error message shown, None when none was
  \* ---- search_authors (src/app.py:640-659)
  search_pc,          \* "call" before the call, "returned" after it
  query,              \* parameter query: the sequence of its characters
  search_requests,    \* history: the search queries sent to the remote source
  search_response,    \* the response received, None when no request was made
  search_result,      \* the list returned
  \* ---- single calls of the functions over works (src/app.py:149-366, 426-439)
  call_fn,            \* the function called
  call_pc,            \* "call" before the call, "loop" in its loop, "returned", "raised"
  call_works,         \* parameter works (parameter work: the list of that one work)
  call_result,        \* the value returned
  call_fault,         \* the exception the call raised, None when none
  sorted_works,       \* create_new_collaborators_chart: the works still to process
  known_collaborators, \* create_new_collaborators_chart: the cumulative set
  yearly_new_collabs, \* create_new_collaborators_chart: year -> total of new collaborators
  yearly_paper_count, \* create_new_collaborators_chart: year -> papers counted
  \* ---- the search and selection part of the script (src/app.py:668-714)
  search_query,       \* st.session_state.search_query
  search_results,     \* st.session_state.search_results
  selected_author,    \* st.session_state.selected_author: an entry, or None
  selectbox,          \* the selectbox shown by the last run: its options and value, or None
  remote,             \* what the remote source answers to each query of the session
  rendered            \* the id of the author whose dashboard the last run rendered, or None

netVars == <<pc, max_depth, works, G_nodes, G_edges, processed_authors, stack,
             requests, tallied, inserted>>
cciVars == <<cci_pc, citation_counts, cci_n>>
fetchVars == <<fetch_pc, work_ids, work_index, page, fetched, responses>>
dashVars == <<dash_pc, selected_author_data, author_works, citing_works, citing_df, c_index,
              ch2_index, self_citation_rate, fault, shown>>

searchVars == <<search_pc, query, search_requests, search_response, search_result>>

callVars == <<call_fn, call_pc, call_works, call_result, call_fault, sorted_works,
              known_collaborators, yearly_new_collabs, yearly_paper_count>>

sessionVars == <<search_query, search_results, selected_author, selectbox, remote, rendered>>

vars == <<netVars, cciVars, fetchVars, dashVars, searchVars, callVars, sessionVars>>

None == "None"

\* An optional dict or list is <<>> for None and <<d>> for the value d.
NoneDict == <<>>

\* The parts of the program a specification leaves aside stay as they are.
CciIdle == cci_pc = "idle" /\ citation_counts = <<>> /\ cci_n = None
DashIdle ==
  /\ dash_pc = "idle" /\ selected_author_data = NoneDict /\ author_works = <<>>
  /\ citing_works = <<>> /\ citing_df = <<>> /\ c_index = None /\ ch2_index = None
  /\ self_citation_rate = None /\ fault = None /\ shown = None
SearchIdle ==
  /\ search_pc = "idle" /\ query = <<>> /\ search_requests = <<>>
  /\ search_response = None /\ search_result = <<>>
SessionIdle ==
  /\ search_query = <<>> /\ search_results = <<>> /\ selected_author = NoneDict
  /\ selectbox = NoneDict /\ remote = <<>> /\ rendered = None
CallIdle ==
  /\ call_fn = None /\ call_pc = "idle" /\ call_works = <<>> /\ call_result = None
  /\ call_fault = None /\ sorted_works = <<>> /\ known_collaborators = {}
  /\ yearly_new_collabs = <<>> /\ yearly_paper_count = <<>>
FetchIdle ==
  /\ fetch_pc = "idle" /\ work_ids = <<>> /\ work_index = 0 /\ page = 0 /\ fetched = <<>>
  /\ responses = <<>>
NetIdle ==
  /\ pc = "idle" /\ max_depth = 0 /\ works = <<>> /\ G_nodes = <<>>
  /\ G_edges = {} /\ processed_authors = {} /\ stack = <<>> /\ requests = <<>>
  /\ tallied = None /\ inserted = <<>>

\* ------------------------------------------------------------------ data

\* Author identifiers of the modelled data set; author_id is the seed.
Ids == {"A", "B", "C", "D"}
author_id == "A"

\* Bounds of the model.
MaxCount == 3        \* a frequent co-author occurs on MaxCount works of a batch
MaxDepthBound == 3   \* max_depth ranges over 0..MaxDepthBound

\* Program constants.
Threshold == 2       \* data['count'] > 2
DefaultMaxDepth == 2 \* max_depth=2

display_name(id) == "name-" \o id

\* The order in which identifiers are listed on a work.
IdOrder == <<"A", "B", "C", "D">>

\* Numbers of works of a batch an identifier occurs on: none, exactly the
\* admission threshold, or more than it.
CountValues == {0, Threshold, MaxCount}

Authorship(id) == [id |-> id, display_name |-> IF id = None THEN None ELSE display_name(id)]

\* The i-th work of the batch of `source` in which identifier t occurs on the
\* first cnt[t] works: the source first, then the co-authors; the first work
\* also carries an authorship whose author has no identifier.
WorkOf(source, cnt, i) ==
  LET others == SelectSeq(IdOrder, LAMBDA t : t # source /\ cnt[t] >= i)
      ids == <<source>> \o others \o (IF i = 1 THEN <<None>> ELSE <<>>)
  IN [authorships |-> [k \in 1..Len(ids) |-> Authorship(ids[k])]]

BatchOf(source, cnt) == [i \in 1..MaxCount |-> WorkOf(source, cnt, i)]

\* The works batches the remote source (or the caller, for the seed) can
\* hand over for `source`.
Batches(source) ==
  {BatchOf(source, cnt) : cnt \in [Ids \ {source} -> CountValues]}

\* ------------------------------------------- add_collaborations, the tally

\* Position of target_id in author_data (a dict, kept in insertion order), 0
\* when absent.
IndexOf(author_data, target_id) ==
  IF \E k \in 1..Len(author_data) : author_data[k].id = target_id
  THEN CHOOSE k \in 1..Len(author_data) : author_data[k].id = target_id
  ELSE 0

\* Body(value), with the value computed once.
With(value, Body(_)) == CHOOSE r \in {Body(v) : v \in {value}} : TRUE

\* One authorship of the inner loop: skipped when it has no identifier or is
\* the source's own, else entered with count 1 or counted once more.
TallyAuthorship(authorship, source_id, author_data) ==
  LET target_id == authorship.id
      k == IndexOf(author_data, target_id)
  IN IF target_id = None \/ target_id = source_id THEN author_data
     ELSE IF k = 0
     THEN Append(author_data, [id |-> target_id,
                               name |-> authorship.display_name,
                               count |-> 1])
     ELSE [author_data EXCEPT ![k].count = @ + 1]

RECURSIVE TallyAuthorships(_, _, _)
TallyAuthorships(authorships, source_id, author_data) ==
  IF authorships = <<>> THEN author_data
  ELSE TallyAuthorships(Tail(authorships), source_id,
         With(author_data,
              LAMBDA d : TallyAuthorship(Head(authorships), source_id, d)))

RECURSIVE TallyWorks(_, _, _)
TallyWorks(wks, source_id, author_data) ==
  IF wks = <<>> THEN author_data
  ELSE TallyWorks(Tail(wks), source_id,
         TallyAuthorships(Head(wks).authorships, source_id, author_data))

\* ------------------------------- add_collaborations, frequent collaborators

IsFrequentLoose(count) == count >= Threshold
IsFrequent(count) == count > Threshold

\* G.add_node(n, name=..., level=...): sets the attributes of n, creating it
\* when absent. g is [nodes, inserted, ...].
add_node(g, n, name, level) ==
  [g EXCEPT !.nodes = [x \in DOMAIN g.nodes \cup {n} |->
                         IF x = n THEN [name |-> name, level |-> level]
                         ELSE g.nodes[x]],
            !.inserted = Append(g.inserted, [id |-> n, level |-> level])]

AddNodeUnguarded(g, target_id, name, level) == add_node(g, target_id, name, level)
\* if target_id not in G: G.add_node(target_id, name=data['name'], level=level)
AddNode(g, target_id, name, level) ==
  IF target_id \in DOMAIN g.nodes THEN g
  ELSE add_node(g, target_id, name, level)

AddEdgeDropped(edges, source_id, target_id) == edges
\* G.add_edge(source_id, target_id): an undirected simple graph
AddEdge(edges, source_id, target_id) == edges \cup {{source_id, target_id}}

\* The loop over author_data.items(): the graph and frequent_collaborators
\* after the entries of author_data from position k on.
\* One entry of author_data: a frequent collaborator becomes a node, if it is
\* none yet, gets its edge to the source and is listed for the next level.
AdmitOne(data, source_id, level, g) ==
  IF IsFrequent(data.count)
  THEN [AddNode(g, data.id, data.name, level) EXCEPT
          !.edges = AddEdge(g.edges, source_id, data.id),
          !.frequent_collaborators = Append(@, data.id)]
  ELSE g

RECURSIVE Admit(_, _, _, _, _)
Admit(author_data, k, source_id, level, g) ==
  IF k > Len(author_data) THEN g
  ELSE Admit(author_data, k + 1, source_id, level,
         With(g, LAMBDA h : AdmitOne(author_data[k], source_id, level, h)))

TooDeepOff(level) == FALSE
\* if level > max_depth: return
TooDeep(level) == level > max_depth

\* if level < max_depth: process the next level
ProcessNextLevel(level) == level < max_depth

NotProcessedAlways(target_id) == TRUE
\* if target_id not in processed_authors
NotProcessed(target_id) == target_id \notin processed_authors

\* One call add_collaborations(wks, source_id, level), up to its first remote
\* query: returns at once when the level is too deep, else tallies the batch,
\* admits the frequent collaborators and enters the loop over them.
AddCollaborations(wks, source_id, level, callers) ==
  IF TooDeep(level)
  THEN /\ stack' = callers
       /\ UNCHANGED <<G_nodes, G_edges, tallied, inserted>>
  ELSE \E r \in {Admit(author_data, 1, source_id, level,
                      [nodes |-> G_nodes, inserted |-> inserted,
                       edges |-> G_edges, frequent_collaborators |-> <<>>]) :
                  author_data \in {TallyWorks(wks, source_id, <<>>)}} :
          /\ G_nodes' = r.nodes
          /\ inserted' = r.inserted
          /\ G_edges' = r.edges
          /\ tallied' = [works |-> wks, source_id |-> source_id, level |-> level]
          /\ stack' = Append(callers,
                        [source_id |-> source_id, level |-> level,
                         frequent_collaborators |-> r.frequent_collaborators,
                         next |-> 1])

\* --------------------------------------------------------------- actions

NetInit ==
  /\ pc = "start"
  /\ max_depth \in 0..MaxDepthBound
  /\ works \in Batches(author_id)
  /\ G_nodes = <<>>
  /\ G_edges = {}
  /\ processed_authors = {}
  /\ stack = <<>>
  /\ requests = <<>>
  /\ tallied = [works |-> <<>>, source_id |-> None, level |-> 0]
  /\ inserted = <<>>

\* G = nx.Graph(); the seed is added at level 0 and marked processed.
GetCollaboratorNetwork ==
  /\ UNCHANGED <<cciVars, fetchVars, dashVars, searchVars, callVars, sessionVars>>
  /\ pc = "start"
  /\ LET g == add_node([nodes |-> <<>>, inserted |-> <<>>], author_id,
                       display_name(author_id), 0)
     IN G_nodes' = g.nodes /\ inserted' = g.inserted
  /\ processed_authors' = {author_id}
  /\ pc' = "call"
  /\ UNCHANGED <<max_depth, works, G_edges, stack, requests, tallied>>

\* add_collaborations(works, author_id, 1)
StartBuilding ==
  /\ UNCHANGED <<cciVars, fetchVars, dashVars, searchVars, callVars, sessionVars>>
  /\ pc = "call"
  /\ AddCollaborations(works, author_id, 1, <<>>)
  /\ pc' = IF stack' = <<>> THEN "done" ELSE "loop"
  /\ UNCHANGED <<max_depth, works, processed_authors, requests>>

Top == stack[Len(stack)]
Callers == SubSeq(stack, 1, Len(stack) - 1)
HasNext == ProcessNextLevel(Top.level) /\ Top.next <= Len(Top.frequent_collaborators)
Advanced == Append(Callers, [Top EXCEPT !.next = @ + 1])

\* The loop over frequent_collaborators meets an author already processed.
SkipProcessed ==
  /\ UNCHANGED <<cciVars, fetchVars, dashVars, searchVars, callVars, sessionVars>>
  /\ pc = "loop" /\ HasNext
  /\ ~NotProcessed(Top.frequent_collaborators[Top.next])
  /\ stack' = Advanced
  /\ UNCHANGED <<pc, max_depth, works, G_nodes, G_edges, processed_authors,
                 requests, tallied, inserted>>

\* The author is marked processed and queried; the response is not 200.
QueryFails ==
  /\ UNCHANGED <<cciVars, fetchVars, dashVars, searchVars, callVars, sessionVars>>
  /\ pc = "loop" /\ HasNext
  /\ LET target_id == Top.frequent_collaborators[Top.next]
     IN /\ NotProcessed(target_id)
        /\ processed_authors' = processed_authors \cup {target_id}
        /\ requests' = Append(requests, [target_id |-> target_id,
                                         level |-> Top.level + 1])
  /\ stack' = Advanced
  /\ UNCHANGED <<pc, max_depth, works, G_nodes, G_edges, tallied, inserted>>

\* The author is marked processed and queried; the response is 200 and its
\* results are expanded one level deeper.
QueryExpands ==
  /\ UNCHANGED <<cciVars, fetchVars, dashVars, searchVars, callVars, sessionVars>>
  /\ pc = "loop" /\ HasNext
  /\ LET target_id == Top.frequent_collaborators[Top.next]
     IN /\ NotProcessed(target_id)
        /\ processed_authors' = processed_authors \cup {target_id}
        /\ requests' = Append(requests, [target_id |-> target_id,
                                         level |-> Top.level + 1])
        /\ \E collab_works \in Batches(target_id) :
             AddCollaborations(collab_works, target_id, Top.level + 1, Advanced)
  /\ UNCHANGED <<pc, max_depth, works>>

\* The innermost call has nothing left to do and returns; the outermost
\* return ends get_collaborator_network (return G).
Return ==
  /\ UNCHANGED <<cciVars, fetchVars, dashVars, searchVars, callVars, sessionVars>>
  /\ pc = "loop" /\ ~HasNext
  /\ stack' = Callers
  /\ pc' = IF Callers = <<>> THEN "done" ELSE "loop"
  /\ UNCHANGED <<max_depth, works, G_nodes, G_edges, processed_authors,
                 requests, tallied, inserted>>

NetNext ==
  \/ GetCollaboratorNetwork
  \/ StartBuilding
  \/ SkipProcessed
  \/ QueryFails
  \/ QueryExpands
  \/ Return

Init == NetInit /\ CciIdle /\ FetchIdle /\ DashIdle /\ SearchIdle /\ CallIdle /\ SessionIdle
Next == NetNext
Spec == Init /\ [][Next]_vars

\* The run is one sequential call: it is scheduled until it returns.
FairSpec == Spec /\ WF_vars(Next)

\* ------------------------------------------------ the network builder's claims

\* The number of authorship entries of a batch that carry identifier t.
Occurrences(wks, t) ==
  Cardinality({ij \in (1..Len(wks)) \X (1..Cardinality(Ids) + 1) :
                 /\ ij[2] <= Len(wks[ij[1]].authorships)
                 /\ wks[ij[1]].authorships[ij[2]].id = t})

\* The co-authors a batch admits for its source: identifier present, not the
\* source, carried by more than 2 authorship entries.
AdmittedBy(wks, source_id) ==
  {t \in Ids \ {source_id} : Occurrences(wks, t) > 2}

\* A step tallies a batch exactly when it enters a call of add_collaborations.
TalliesBatch == Len(stack') = Len(stack) + 1

SeedExample ==
  /\ pc = "done"
  /\ Occurrences(works, "B") = 3
  /\ Occurrences(works, "C") = 2

\* C1 (as amended): a step that tallies the batch of a source adds exactly the
\* edges {source, t}, and the nodes t not yet present, at the level of the
\* call, for the identifiers t other than the source that more than 2
\* authorship entries of the batch carry; no other step adds an edge or a node
\* but the seed's. With max_depth >= 1, a seed with 3 entries for B and 2 for C
\* ends with B a level-1 node joined to the seed and with C not admitted by the
\* seed's batch: C is in the graph only at a level >= 2.
C1_Admission ==
  [][/\ TalliesBatch =>
          LET admitted == AdmittedBy(tallied'.works, tallied'.source_id)
          IN /\ G_edges' = G_edges \cup {{tallied'.source_id, t} : t \in admitted}
             /\ DOMAIN G_nodes' = DOMAIN G_nodes \cup admitted
             /\ \A t \in admitted \ DOMAIN G_nodes :
                  G_nodes'[t].level = tallied'.level
     /\ ~TalliesBatch =>
          /\ G_edges' = G_edges
          /\ DOMAIN G_nodes' \subseteq DOMAIN G_nodes \cup {author_id}
     /\ (SeedExample /\ max_depth >= 1)' =>
          /\ "B" \in DOMAIN G_nodes'
          /\ G_nodes'["B"].level = 1
          /\ {author_id, "B"} \in G_edges'
          /\ "C" \notin AdmittedBy(works', author_id)
          /\ "C" \in DOMAIN G_nodes' => G_nodes'["C"].level >= 2
    ]_vars

\* C1 witness: the example run has ended under the default depth with B
\* admitted and C absent.
C1_Witness ==
  /\ SeedExample
  /\ max_depth = DefaultMaxDepth
  /\ "B" \in DOMAIN G_nodes
  /\ "C" \notin DOMAIN G_nodes

\* C1 as stated: under the default depth, the seed with 3 entries for B and 2
\* for C ends with B a level-1 node joined to the seed and C absent from G.
C1_Original ==
  (SeedExample /\ max_depth = DefaultMaxDepth) =>
    /\ "B" \in DOMAIN G_nodes
    /\ G_nodes["B"].level = 1
    /\ {author_id, "B"} \in G_edges
    /\ "C" \notin DOMAIN G_nodes

\* The add_node calls made for identifier n.
InsertionsOf(n) == {k \in 1..Len(inserted) : inserted[k].id = n}

\* C2: every identifier is inserted as a node at most once, and the level of a
\* node is the one its first insertion wrote (0 for the seed), whatever was
\* discovered afterwards.
C2_LevelFixed ==
  /\ \A k \in 1..Len(inserted) : inserted[k].id \in DOMAIN G_nodes
  /\ \A n \in DOMAIN G_nodes :
       /\ Cardinality(InsertionsOf(n)) = 1
       /\ \A k \in InsertionsOf(n) :
            (\A j \in InsertionsOf(n) : k <= j) => G_nodes[n].level = inserted[k].level
  /\ author_id \in DOMAIN G_nodes => G_nodes[author_id].level = 0

\* C2 witness: a batch tallied at level 2 admits again a node of level 1 and
\* the seed.
C2_Witness ==
  /\ tallied.level = 2
  /\ author_id \in AdmittedBy(tallied.works, tallied.source_id)
  /\ \E n \in AdmittedBy(tallied.works, tallied.source_id) :
       n \in DOMAIN G_nodes /\ G_nodes[n].level = 1

\* No batch is tallied, no call is active and no query is issued for a level
\* above max_depth.
NoDeepExpansion ==
  /\ tallied.level <= max_depth
  /\ \A k \in 1..Len(stack) : stack[k].level <= max_depth
  /\ \A k \in 1..Len(requests) : requests[k].level <= max_depth

\* C3: for every data set and every max_depth >= 0 the run ends, and nothing is
\* expanded for a level above max_depth.
C3_Terminates == []NoDeepExpansion /\ <>(pc = "done")

\* C3 witness: a run over cyclic data (the seed admits B, B admits the seed)
\* has ended.
C3_Witness ==
  /\ pc = "done"
  /\ "B" \in AdmittedBy(works, author_id)
  /\ tallied.source_id = "B"
  /\ author_id \in AdmittedBy(tallied.works, "B")

\* C4: the works query is issued at most once per identifier and never for the
\* seed; the queried authors are exactly the processed ones other than the seed.
C4_QueryOnce ==
  /\ \A j, k \in 1..Len(requests) :
       requests[j].target_id = requests[k].target_id => j = k
  /\ \A k \in 1..Len(requests) : requests[k].target_id # author_id
  /\ pc # "start" =>
       processed_authors = {author_id} \cup {requests[k].target_id : k \in 1..Len(requests)}

\* C4 witness: the loop meets, through a second source, an author that was
\* queried before at another level, after it met the seed as a frequent
\* collaborator.
C4_Witness ==
  /\ pc = "loop" /\ HasNext
  /\ \E k \in 1..Len(requests) :
       /\ requests[k].target_id = Top.frequent_collaborators[Top.next]
       /\ requests[k].level # Top.level + 1
  /\ \E k \in 1..Top.next : Top.frequent_collaborators[k] = author_id

\* C17: the graph is built breadth-first by level for every max_depth: the
\* nodes are inserted in non-decreasing order of level, and the authors are
\* expanded (their works queried) in non-decreasing order of the level at
\* which they were admitted.
C17_BreadthFirst ==
  /\ \A j, k \in 1..Len(inserted) : j < k => inserted[j].level <= inserted[k].level
  /\ \A j, k \in 1..Len(requests) :
       j < k => G_nodes[requests[j].target_id].level
                  <= G_nodes[requests[k].target_id].level

\* The nodes joined to the seed by a path of at most k edges.
RECURSIVE Within(_)
Within(k) ==
  IF k = 0 THEN {author_id}
  ELSE Within(k - 1)
         \cup {n \in DOMAIN G_nodes : \E m \in Within(k - 1) : {m, n} \in G_edges}

\* The unweighted shortest-path distance of node n from the seed, more than
\* the number of nodes when there is no path.
Distance(n) ==
  IF n \in Within(Cardinality(DOMAIN G_nodes))
  THEN CHOOSE k \in 0..Cardinality(DOMAIN G_nodes) :
         n \in Within(k) /\ \A j \in 0..(k - 1) : n \notin Within(j)
  ELSE Cardinality(DOMAIN G_nodes) + 1

\* C18: from the moment the seed is added, and in the graph returned: the seed
\* is a node of level 0, every other node has a level in 1..max_depth and a
\* path to the seed no longer than its level, and no edge joins a node to
\* itself; with the default max_depth of 2 the level of a node is its distance
\* from the seed.
C18_LevelBoundsDistance ==
  pc # "start" =>
    /\ author_id \in DOMAIN G_nodes /\ G_nodes[author_id].level = 0
    /\ \A n \in DOMAIN G_nodes \ {author_id} :
         G_nodes[n].level \in 1..max_depth
    /\ \A n \in DOMAIN G_nodes : Distance(n) <= G_nodes[n].level
    /\ \A e \in G_edges : Cardinality(e) = 2 /\ e \subseteq DOMAIN G_nodes
    /\ max_depth = DefaultMaxDepth =>
         \A n \in DOMAIN G_nodes : Distance(n) = G_nodes[n].level

\* A run with the default max_depth has ended with a node of level 2 at two
\* edges from the seed, on a cycle through the seed.
C18_Witness ==
  /\ pc = "done" /\ max_depth = DefaultMaxDepth
  /\ \E n \in DOMAIN G_nodes : G_nodes[n].level = 2 /\ Distance(n) = 2
  /\ \E m \in DOMAIN G_nodes :
       G_nodes[m].level = 1 /\ author_id \in AdmittedBy(tallied.works, m)
                            /\ tallied.source_id = m

\* ------------------------- calculate_citation_concentration_index (480-494)

\* Bounds of the model.
MaxLen == 5          \* the list holds at most MaxLen counts
MaxCitations == 5    \* each count is in 0..MaxCitations

\* The list with x put before the first element smaller than it.
RECURSIVE InsertDescending(_, _)
InsertDescending(x, sorted) ==
  IF sorted = <<>> THEN <<x>>
  ELSE IF x >= Head(sorted) THEN <<x>> \o sorted
  ELSE <<Head(sorted)>> \o InsertDescending(x, Tail(sorted))

RECURSIVE SortDescending(_)
SortDescending(counts) ==
  IF counts = <<>> THEN <<>>
  ELSE InsertDescending(Head(counts), SortDescending(Tail(counts)))

Unsorted(counts) == counts
\* citation_counts.sort(reverse=True)
Sorted(counts) == SortDescending(counts)

\* for i, citations in enumerate(citation_counts, 1): n = i while
\* citations >= i, break at the first count below its rank.
RECURSIVE LargestRank(_, _, _)
LargestRank(counts, i, n) ==
  IF i > Len(counts) THEN n
  ELSE IF counts[i] >= i THEN LargestRank(counts, i + 1, i)
  ELSE n

calculate_citation_concentration_index(counts) ==
  LargestRank(Sorted(counts), 1, 0)

CountLists == UNION {[1..len -> 0..MaxCitations] : len \in 0..MaxLen}

CciInit ==
  /\ NetIdle /\ FetchIdle /\ DashIdle /\ SearchIdle /\ CallIdle /\ SessionIdle
  /\ cci_pc = "call"
  /\ citation_counts \in CountLists
  /\ cci_n = None

CalculateIndex ==
  /\ UNCHANGED <<netVars, fetchVars, dashVars, searchVars, callVars, sessionVars>>
  /\ cci_pc = "call"
  /\ cci_n' = calculate_citation_concentration_index(citation_counts)
  /\ cci_pc' = "returned"
  /\ UNCHANGED citation_counts

CciNext == CalculateIndex

CciSpec == CciInit /\ [][CciNext]_vars

\* Whether the n-th largest of the counts is at least n: at least n of them are.
NthLargestAtLeast(counts, n) ==
  Cardinality({k \in 1..Len(counts) : counts[k] >= n}) >= n

\* max{ n : the n-th largest count >= n }, 0 when there is none.
MaxRank(counts) ==
  LET ranks == {n \in 1..Len(counts) : NthLargestAtLeast(counts, n)}
  IN IF ranks = {} THEN 0 ELSE CHOOSE n \in ranks : \A m \in ranks : m <= n

\* The list with the elements at k and k + 1 exchanged.
SwapAdjacent(counts, k) ==
  [x \in 1..Len(counts) |->
     IF x = k THEN counts[k + 1] ELSE IF x = k + 1 THEN counts[k] ELSE counts[x]]

\* C5: the value returned is max{ n : the n-th largest count >= n }, 0 when no
\* such n exists; it is 3 for [5,4,3,2,1], 1 for [10,1,1], 0 for []; and
\* exchanging two neighbours of the list (hence any reordering) leaves it as
\* it is.
C5_LargestRank ==
  /\ cci_pc = "returned" =>
       /\ cci_n = MaxRank(citation_counts)
       /\ \A k \in 1..Len(citation_counts) - 1 :
            calculate_citation_concentration_index(SwapAdjacent(citation_counts, k)) = cci_n
  /\ calculate_citation_concentration_index(<<5, 4, 3, 2, 1>>) = 3
  /\ calculate_citation_concentration_index(<<10, 1, 1>>) = 1
  /\ calculate_citation_concentration_index(<<>>) = 0

\* C5 witness: the call has returned 3 for an unsorted list of the counts
\* 5, 4, 3, 2, 1.
C5_Witness ==
  /\ cci_pc = "returned"
  /\ citation_counts = <<1, 3, 5, 2, 4>>
  /\ cci_n = 3

\* ---------------- get_works (93-112), get_citing_works_with_progress (116-146)

\* Program constant.
per_page == 100

\* Bounds of the model.
MaxPages == 3        \* a query has fewer than MaxPages full pages of results
MaxWorks == 2        \* get_citing_works_with_progress is handed at most MaxWorks works

OK == 200
ServerError == 500

\* The results of page p of query q when the page holds n of them.
Results(q, p, n) == [k \in 1..n |-> [id |-> <<q, p, k>>]]

\* The numbers of results the remote source can put on page p: none, one fewer
\* than a full page, or a full page while the data set has more.
PageSizes(p) == {0, per_page - 1} \cup (IF p < MaxPages THEN {per_page} ELSE {})

IsShortPageLoose(results) == Len(results) <= per_page
\* if len(data['results']) < per_page: break
IsShortPage(results) == Len(results) < per_page

\* work_ids = [work['id'] for work in works]
WorkIdLists == {[k \in 1..n |-> "W" \o ToString(k)] : n \in 0..MaxWorks}

FetchInit ==
  /\ NetIdle /\ CciIdle /\ DashIdle /\ SearchIdle /\ CallIdle /\ SessionIdle
  /\ \/ fetch_pc = "get_works" /\ work_ids = <<>> /\ work_index = 0 /\ page = 1
     \/ fetch_pc = "get_citing_works" /\ work_ids \in WorkIdLists /\ work_index = 1 /\ page = 1
  /\ fetched = <<>>
  /\ responses = <<>>

Logged(q, status, n) ==
  Append(responses, [query |-> q, page |-> page, status |-> status, n |-> n])

\* get_works: the response is not 200: break, return works.
GetWorksFailedPage ==
  /\ UNCHANGED <<netVars, cciVars, dashVars, searchVars, callVars, sessionVars>>
  /\ fetch_pc = "get_works"
  /\ responses' = Logged(author_id, ServerError, 0)
  /\ fetch_pc' = "returned"
  /\ UNCHANGED <<work_ids, work_index, page, fetched>>

\* get_works: the response is 200 and the page is short: extend, break, return.
GetWorksShortPage ==
  /\ UNCHANGED <<netVars, cciVars, dashVars, searchVars, callVars, sessionVars>>
  /\ fetch_pc = "get_works"
  /\ \E n \in PageSizes(page) :
       /\ IsShortPage(Results(author_id, page, n))
       /\ fetched' = fetched \o Results(author_id, page, n)
       /\ responses' = Logged(author_id, OK, n)
  /\ fetch_pc' = "returned"
  /\ UNCHANGED <<work_ids, work_index, page>>

\* get_works: the response is 200 and the page is full: extend, page += 1.
GetWorksFullPage ==
  /\ UNCHANGED <<netVars, cciVars, dashVars, searchVars, callVars, sessionVars>>
  /\ fetch_pc = "get_works"
  /\ \E n \in PageSizes(page) :
       /\ ~IsShortPage(Results(author_id, page, n))
       /\ fetched' = fetched \o Results(author_id, page, n)
       /\ responses' = Logged(author_id, OK, n)
  /\ page' = page + 1
  /\ UNCHANGED <<fetch_pc, work_ids, work_index>>

\* get_citing_works_with_progress: the response for the current work is not
\* 200: break out of its pagination, update the progress, go to the next work.
CitingFailedPage ==
  /\ UNCHANGED <<netVars, cciVars, dashVars, searchVars, callVars, sessionVars>>
  /\ fetch_pc = "get_citing_works" /\ work_index <= Len(work_ids)
  /\ responses' = Logged(work_ids[work_index], ServerError, 0)
  /\ work_index' = work_index + 1
  /\ page' = 1
  /\ UNCHANGED <<fetch_pc, work_ids, fetched>>

\* The response is 200 and the page is short: extend, break, next work.
CitingShortPage ==
  /\ UNCHANGED <<netVars, cciVars, dashVars, searchVars, callVars, sessionVars>>
  /\ fetch_pc = "get_citing_works" /\ work_index <= Len(work_ids)
  /\ \E n \in PageSizes(page) :
       /\ IsShortPage(Results(work_ids[work_index], page, n))
       /\ fetched' = fetched \o Results(work_ids[work_index], page, n)
       /\ responses' = Logged(work_ids[work_index], OK, n)
  /\ work_index' = work_index + 1
  /\ page' = 1
  /\ UNCHANGED <<fetch_pc, work_ids>>

\* The response is 200 and the page is full: extend, page += 1, same work.
CitingFullPage ==
  /\ UNCHANGED <<netVars, cciVars, dashVars, searchVars, callVars, sessionVars>>
  /\ fetch_pc = "get_citing_works" /\ work_index <= Len(work_ids)
  /\ \E n \in PageSizes(page) :
       /\ ~IsShortPage(Results(work_ids[work_index], page, n))
       /\ fetched' = fetched \o Results(work_ids[work_index], page, n)
       /\ responses' = Logged(work_ids[work_index], OK, n)
  /\ page' = page + 1
  /\ UNCHANGED <<fetch_pc, work_ids, work_index>>

\* The loop over work_ids is over: progress_bar.empty(), return citing_works.
CitingReturn ==
  /\ UNCHANGED <<netVars, cciVars, dashVars, searchVars, callVars, sessionVars>>
  /\ fetch_pc = "get_citing_works" /\ work_index > Len(work_ids)
  /\ fetch_pc' = "returned"
  /\ UNCHANGED <<work_ids, work_index, page, fetched, responses>>

FetchNext ==
  \/ GetWorksFailedPage
  \/ GetWorksShortPage
  \/ GetWorksFullPage
  \/ CitingFailedPage
  \/ CitingShortPage
  \/ CitingFullPage
  \/ CitingReturn

FetchSpec == FetchInit /\ [][FetchNext]_vars

\* The results of the successful responses among the first k, in order.
RECURSIVE Concatenation(_, _)
Concatenation(log, k) ==
  IF k = 0 THEN <<>>
  ELSE Concatenation(log, k - 1) \o
         (IF log[k].status = 200
          THEN Results(log[k].query, log[k].page, log[k].n) ELSE <<>>)

\* The queries of a call, in order: the author for get_works, each work for
\* get_citing_works_with_progress.
QueriesOf == IF work_ids = <<>> /\ work_index = 0 THEN <<author_id>> ELSE work_ids

PositionOf(q) == CHOOSE w \in 1..Len(QueriesOf) : QueriesOf[w] = q

\* The positions in the log of the requests made for query q.
RequestsFor(q) == {k \in 1..Len(responses) : responses[k].query = q}

\* The requests for q are pages 1, 2, 3, ... of size 100, consecutive in the
\* log, all full and successful but the last, which is short or failed.
StopsAtFirstShortOrFailed(q) ==
  LET ks == RequestsFor(q)
  IN /\ ks # {}
     /\ \E first \in ks :
          /\ ks = first .. (first + Cardinality(ks) - 1)
          /\ \A k \in ks :
               /\ responses[k].page = k - first + 1
               /\ k < first + Cardinality(ks) - 1 =>
                    responses[k].status = 200 /\ responses[k].n = 100
               /\ k = first + Cardinality(ks) - 1 =>
                    responses[k].status # 200 \/ responses[k].n < 100

\* C6: the list accumulated is always the concatenation, in order, of the
\* results of the successful pages; once the call has returned, every query of
\* the call (every work, whatever happened to the works before it) was paged
\* from 1 up to its first short or failed page, once, in the order of the
\* works, and the call has returned normally.
C6_Pagination ==
  /\ fetched = Concatenation(responses, Len(responses))
  /\ fetch_pc = "returned" =>
       /\ \A k \in 1..Len(QueriesOf) : StopsAtFirstShortOrFailed(QueriesOf[k])
       /\ \A k \in 1..Len(responses) :
            \E w \in 1..Len(QueriesOf) : QueriesOf[w] = responses[k].query
       /\ \A j, k \in 1..Len(responses) :
            j < k => PositionOf(responses[j].query) <= PositionOf(responses[k].query)

\* C6 witness: get_citing_works_with_progress has returned after a failed
\* second page for the first work and successful pages for the second.
C6_Witness ==
  /\ fetch_pc = "returned"
  /\ Len(work_ids) = 2
  /\ \E j, k \in 1..Len(responses) :
       /\ responses[j].query = "W1" /\ responses[j].page = 2 /\ responses[j].status # 200
       /\ responses[k].query = "W2" /\ responses[k].status = 200 /\ responses[k].n > 0
  /\ Len(fetched) > per_page

\* --------------------------- the selected-author pipeline (717-822, 877-878)

\* Bounds of the model.
MaxCiting == 3       \* get_citing_works_with_progress returns at most MaxCiting works
MaxHIndex == 2       \* summary_stats.h_index, when present, is in 0..MaxHIndex
MaxCitedBy == 9      \* cited_by_count, when present, is 0 or MaxCitedBy

\* A dict is a function on its keys; d.get(key, default):
Get(d, key, default) == IF key \in DOMAIN d THEN d[key] ELSE default

\* The author records a 200 response can carry: cited_by_count and
\* summary_stats present or not, h_index present or not in summary_stats.
AuthorRecords ==
  {cited @@ stats @@ [id |-> author_id, display_name |-> display_name(author_id)] :
     cited \in {<<>>} \cup {("cited_by_count" :> c) : c \in {0, MaxCitedBy}},
     stats \in {<<>>} \cup {("summary_stats" :> st) :
                  st \in {<<>>} \cup {("h_index" :> h) : h \in 0..MaxHIndex}}}

AuthorResponses ==
  {[status_code |-> 404, json |-> <<>>]}
    \cup {[status_code |-> 200, json |-> a] : a \in AuthorRecords}

\* get_author_data: response.json() when the status is 200, else None.
get_author_data(response) ==
  IF response.status_code = 200 THEN <<response.json>> ELSE NoneDict

\* if author_data: a dict is true when it is not None and not empty.
Truthy(data) == data # NoneDict /\ DOMAIN data[1] # {}

\* The lists get_works can return for the author.
WorksLists == {[k \in 1..n |-> [id |-> "W" \o ToString(k)]] : n \in 0..MaxWorks}

\* The works a citing query can return: the author's own first work (which cites
\* another of the author's works) and two other papers, which bear the same
\* title and venue.
CitingPool ==
  {[id |-> "W1", title |-> "Own work", venue |-> "Venue"],
   [id |-> "X1", title |-> "Title", venue |-> "N/A"],
   [id |-> "X2", title |-> "Title", venue |-> "N/A"]}

CitingLists == UNION {[1..n -> CitingPool] : n \in 0..MaxCiting}

\* The elements of a sequence in the order of their first occurrence.
RECURSIVE Distinct(_)
Distinct(seq) ==
  IF seq = <<>> THEN <<>>
  ELSE LET init == Distinct(SubSeq(seq, 1, Len(seq) - 1))
           last == seq[Len(seq)]
       IN IF \E k \in 1..Len(init) : init[k] = last THEN init
          ELSE Append(init, last)

\* citing_papers: one entry per citing work, 'Is Self' by membership of its
\* identifier in works_ids.
CitingPapers(cw, wks) ==
  [k \in 1..Len(cw) |->
     [ID |-> cw[k].id, Title |-> cw[k].title, Venue |-> cw[k].venue,
      IsSelf |-> IF \E w \in 1..Len(wks) : wks[w].id = cw[k].id
                 THEN "True" ELSE "False"]]

CountOf(papers, paper_id) ==
  Cardinality({k \in 1..Len(papers) : papers[k].ID = paper_id})

\* Counter.most_common(): a stable sort by count, descending.
RECURSIVE MostCommon(_, _)
MostCommon(ids, papers) ==
  IF ids = <<>> THEN <<>>
  ELSE LET init == MostCommon(SubSeq(ids, 1, Len(ids) - 1), papers)
           last == ids[Len(ids)]
           before == SelectSeq(init, LAMBDA x : CountOf(papers, x) >= CountOf(papers, last))
           after == SelectSeq(init, LAMBDA x : CountOf(papers, x) < CountOf(papers, last))
       IN before \o <<last>> \o after

\* The merge of (ID, Incoming citations) with the paper details on ID, the ID
\* column dropped: one row for every entry of citing_papers with that ID.
RECURSIVE Merged(_, _)
Merged(ids, papers) ==
  IF ids = <<>> THEN <<>>
  ELSE LET details == SelectSeq(papers, LAMBDA r : r.ID = Head(ids))
       IN [k \in 1..Len(details) |->
             [Title |-> details[k].Title, Venue |-> details[k].Venue,
              Incoming |-> CountOf(papers, Head(ids)),
              IsSelf |-> details[k].IsSelf]]
          \o Merged(Tail(ids), papers)

\* citing_df after drop_duplicates().
CitingFrame(cw, wks) ==
  LET papers == CitingPapers(cw, wks)
      ids == MostCommon(Distinct([k \in 1..Len(papers) |-> papers[k].ID]), papers)
  IN Distinct(Merged(ids, papers))

RECURSIVE SumIncoming(_)
SumIncoming(rows) ==
  IF rows = <<>> THEN 0 ELSE Head(rows).Incoming + SumIncoming(Tail(rows))

\* round(x, 2) of the percentage num * 100 / den, in hundredths of a percent:
\* to the nearest hundredth, a tie to the even one.
RoundedPercent(num, den) ==
  LET q == (num * 10000) \div den
      r == (num * 10000) % den
  IN IF 2 * r > den \/ (2 * r = den /\ q % 2 = 1) THEN q + 1 ELSE q

DashInit ==
  /\ NetIdle /\ CciIdle /\ FetchIdle /\ SearchIdle /\ CallIdle /\ SessionIdle
  /\ dash_pc = "selected"
  /\ selected_author_data = NoneDict
  /\ author_works = <<>>
  /\ citing_works = <<>>
  /\ citing_df = <<>>
  /\ c_index = None
  /\ ch2_index = None
  /\ self_citation_rate = None
  /\ fault = None
  /\ shown = None

Raise(exception) == fault' = exception /\ dash_pc' = "raised"

\* author_data = get_author_data(author_id);
\* author_name = author_data.get('display_name'): None has no get.
FetchAuthorInformation ==
  /\ UNCHANGED <<netVars, cciVars, fetchVars, searchVars, callVars, sessionVars>>
  /\ dash_pc = "selected"
  /\ \E response \in AuthorResponses :
       /\ selected_author_data' = get_author_data(response)
       /\ IF get_author_data(response) = NoneDict
          THEN Raise("AttributeError")
          ELSE dash_pc' = "fetched" /\ UNCHANGED fault
  /\ UNCHANGED <<author_works, citing_works, citing_df, c_index, ch2_index,
                 self_citation_rate, shown>>

\* if author_data: the author information is shown;
\* else: st.error("Could not find author with this ORCID ID").
BranchOnAuthorData ==
  /\ UNCHANGED <<netVars, cciVars, fetchVars, searchVars, callVars, sessionVars>>
  /\ dash_pc = "fetched"
  /\ IF Truthy(selected_author_data)
     THEN dash_pc' = "found" /\ UNCHANGED shown
     ELSE /\ shown' = "Could not find author with this ORCID ID"
          /\ dash_pc' = "not_found"
  /\ UNCHANGED <<selected_author_data, author_works, citing_works, citing_df,
                 c_index, ch2_index, self_citation_rate, fault>>

\* works = get_works(...); works_df.sort_values('Citations'): a frame built
\* from an empty list has no column 'Citations'.
ShowPublications ==
  /\ UNCHANGED <<netVars, cciVars, fetchVars, searchVars, callVars, sessionVars>>
  /\ dash_pc = "found"
  /\ \E wks \in WorksLists :
       /\ author_works' = wks
       /\ IF wks = <<>> THEN Raise("KeyError")
          ELSE dash_pc' = "publications" /\ UNCHANGED fault
  /\ UNCHANGED <<selected_author_data, citing_works, citing_df, c_index,
                 ch2_index, self_citation_rate, shown>>

\* citing_works = get_citing_works_with_progress(works); citing_df is built by
\* the merge with paper_details[['ID', 'Title', 'Venue', 'Is Self']]: a frame
\* built from an empty list has none of these columns.
ShowCitingPapers ==
  /\ UNCHANGED <<netVars, cciVars, fetchVars, searchVars, callVars, sessionVars>>
  /\ dash_pc = "publications"
  /\ \E cw \in CitingLists :
       /\ citing_works' = cw
       /\ IF cw = <<>> THEN Raise("KeyError") /\ UNCHANGED citing_df
          ELSE /\ citing_df' = CitingFrame(cw, author_works)
               /\ dash_pc' = "citing"
               /\ UNCHANGED fault
  /\ UNCHANGED <<selected_author_data, author_works, c_index, ch2_index,
                 self_citation_rate, shown>>

\* c_index = calculate_citation_concentration_index(citing_df)
ShowConcentrationIndex ==
  /\ UNCHANGED <<netVars, cciVars, fetchVars, searchVars, callVars, sessionVars>>
  /\ dash_pc = "citing"
  /\ c_index' = calculate_citation_concentration_index(
                  [k \in 1..Len(citing_df) |-> citing_df[k].Incoming])
  /\ dash_pc' = "c_index"
  /\ UNCHANGED <<selected_author_data, author_works, citing_works, citing_df,
                 ch2_index, self_citation_rate, fault, shown>>

\* author_data.get('cited_by_count', 0)
CitedByCount(data) == Get(data[1], "cited_by_count", 0)
\* author_data.get('summary_stats', {}).get('h_index', 1)
HIndex(data) == Get(Get(data[1], "summary_stats", <<>>), "h_index", 1)

\* cited_by_count / h_index ** 2
ShowCH2Index ==
  /\ UNCHANGED <<netVars, cciVars, fetchVars, searchVars, callVars, sessionVars>>
  /\ dash_pc = "c_index"
  /\ IF HIndex(selected_author_data) * HIndex(selected_author_data) = 0
     THEN Raise("ZeroDivisionError") /\ UNCHANGED ch2_index
     ELSE /\ ch2_index' = [num |-> CitedByCount(selected_author_data),
                           den |-> HIndex(selected_author_data)
                                     * HIndex(selected_author_data)]
          /\ dash_pc' = "ch2"
          /\ UNCHANGED fault
  /\ UNCHANGED <<selected_author_data, author_works, citing_works, citing_df,
                 c_index, self_citation_rate, shown>>

\* round(sum of the 'Is Self' rows * 100 / sum of all rows, 2): the sums are
\* numpy numbers, whose quotient 0/0 is nan.
ShowSelfCitationRate ==
  /\ UNCHANGED <<netVars, cciVars, fetchVars, searchVars, callVars, sessionVars>>
  /\ dash_pc = "ch2"
  /\ LET self == SumIncoming(SelectSeq(citing_df, LAMBDA r : r.IsSelf = "True"))
         total == SumIncoming(citing_df)
     IN self_citation_rate' = IF total = 0 THEN "nan"
                              ELSE RoundedPercent(self, total)
  /\ dash_pc' = "metrics"
  /\ UNCHANGED <<selected_author_data, author_works, citing_works, citing_df,
                 c_index, ch2_index, fault, shown>>

DashNext ==
  \/ FetchAuthorInformation
  \/ BranchOnAuthorData
  \/ ShowPublications
  \/ ShowCitingPapers
  \/ ShowConcentrationIndex
  \/ ShowCH2Index
  \/ ShowSelfCitationRate

DashSpec == DashInit /\ [][DashNext]_vars

\* C7: when the author lookup is not successful, get_author_data returns None
\* and the pipeline goes on to report 'not found' without raising.
C7_AbsenceReported ==
  (dash_pc # "selected" /\ selected_author_data = NoneDict) =>
    /\ fault = None
    /\ dash_pc \in {"fetched", "not_found"}
    /\ dash_pc = "not_found" => shown = "Could not find author with this ORCID ID"

\* Whether the h-index of the author is 0 or absent from the summary statistics.
HIndexZeroOrAbsent(data) ==
  \/ "summary_stats" \notin DOMAIN data[1]
  \/ "h_index" \notin DOMAIN data[1]["summary_stats"]
  \/ data[1]["summary_stats"]["h_index"] = 0

\* C8: the c/h2 index never divides by zero: with an h-index that is 0 or
\* absent it is the total citation count.
C8_HIndexGuarded ==
  /\ fault # "ZeroDivisionError"
  /\ (dash_pc \in {"ch2", "metrics"} /\ HIndexZeroOrAbsent(selected_author_data)) =>
       ch2_index = [num |-> CitedByCount(selected_author_data), den |-> 1]

\* C9: when the author's works have no citing works at all (total incoming
\* citations 0), the pipeline does not fault, and the rate it shows is 0.
C9_ZeroTotalDefined ==
  (/\ dash_pc \notin {"selected", "fetched", "found", "publications"}
   /\ author_works # <<>>
   /\ citing_works = <<>>) =>
    /\ fault = None
    /\ dash_pc = "metrics" => self_citation_rate = 0

\* ------------------------------------------- search_authors (640-659)

MinLength == 3       \* len(query) < 3
\* Bounds of the model.
MaxQueryLen == 4     \* a query has at most MaxQueryLen characters
MaxResults == 2      \* a search response carries at most MaxResults authors

Queries == UNION {[1..n -> {"a", "b"}] : n \in 0..MaxQueryLen}

Affiliation(name) == [institution |-> [display_name |-> name], years |-> <<2020>>]

\* The author entries a search response can carry: with three or with no
\* affiliations, without the key affiliations, without a display name.
SearchPool ==
  {[id |-> "A1", display_name |-> "Ann",
    affiliations |-> <<Affiliation("U1"), Affiliation("U2"), Affiliation("U3")>>],
   [id |-> "A2", display_name |-> "Bob"],
   [id |-> "A3", affiliations |-> <<Affiliation("U1")>>],
   [id |-> "A4", display_name |-> "Cy", affiliations |-> <<>>]}

SearchResponses ==
  {[status_code |-> 404, results |-> <<>>]}
    \cup {[status_code |-> OK, results |-> rs] :
            rs \in UNION {[1..n -> SearchPool] : n \in 0..MaxResults}}

\* get_institutions: the display name of the institution of every affiliation
\* whose own display_name (a key the entries do not have) is not in the list.
RECURSIVE get_institutions(_)
get_institutions(affiliations) ==
  IF affiliations = <<>> THEN <<>>
  ELSE LET institutions == get_institutions(SubSeq(affiliations, 1, Len(affiliations) - 1))
           affiliation == affiliations[Len(affiliations)]
       IN IF \E k \in 1..Len(institutions) :
                 institutions[k] = Get(affiliation, "display_name", None)
          THEN institutions
          ELSE Append(institutions, affiliation.institution.display_name)

RECURSIVE Join(_)
Join(names) ==
  IF Len(names) = 1 THEN names[1]
  ELSE Join(SubSeq(names, 1, Len(names) - 1)) \o ", " \o names[Len(names)]

\* get_institutions_single: iterating None and insts[0] of an empty list raise,
\* and every exception gives 'Unknown institution'.
get_institutions_single(affiliations) ==
  IF affiliations = NoneDict THEN "Unknown institution"
  ELSE LET insts == get_institutions(affiliations[1])
       IN IF Len(insts) = 0 THEN "Unknown institution"
          ELSE IF Len(insts) > 2 THEN Join(SubSeq(insts, 1, 2))
          ELSE Join(insts)

\* author.get('affiliations')
AffiliationsOf(author) ==
  IF "affiliations" \in DOMAIN author THEN <<author.affiliations>> ELSE NoneDict

\* if author.get('display_name')
HasDisplayName(author) ==
  "display_name" \in DOMAIN author /\ author.display_name # ""

\* The list built for the dropdown from response.json()['results'].
FormatResults(results) ==
  LET named == SelectSeq(results, HasDisplayName)
  IN [k \in 1..Len(named) |->
        [id |-> named[k].id,
         label |-> named[k].display_name \o " ("
                     \o get_institutions_single(AffiliationsOf(named[k])) \o ")",
         display_name |-> named[k].display_name]]

\* if not query or len(query) < 3
TooShortLoose(q) == q = <<>> \/ Len(q) < MinLength - 1
TooShort(q) == q = <<>> \/ Len(q) < MinLength

SearchInit ==
  /\ NetIdle /\ CciIdle /\ FetchIdle /\ DashIdle /\ CallIdle /\ SessionIdle
  /\ search_pc = "call"
  /\ query \in Queries
  /\ search_requests = <<>>
  /\ search_response = None
  /\ search_result = <<>>

\* return [] before any request
SearchTooShort ==
  /\ UNCHANGED <<netVars, cciVars, fetchVars, dashVars, callVars, sessionVars>>
  /\ search_pc = "call"
  /\ TooShort(query)
  /\ search_result' = <<>>
  /\ search_pc' = "returned"
  /\ UNCHANGED <<query, search_requests, search_response>>

\* requests.get(url) answered with a status other than 200: return []
SearchFails ==
  /\ UNCHANGED <<netVars, cciVars, fetchVars, dashVars, callVars, sessionVars>>
  /\ search_pc = "call"
  /\ ~TooShort(query)
  /\ \E response \in SearchResponses :
       /\ response.status_code # OK
       /\ search_response' = response
  /\ search_requests' = Append(search_requests, query)
  /\ search_result' = <<>>
  /\ search_pc' = "returned"
  /\ UNCHANGED query

\* requests.get(url) answered with status 200: the formatted results
SearchSucceeds ==
  /\ UNCHANGED <<netVars, cciVars, fetchVars, dashVars, callVars, sessionVars>>
  /\ search_pc = "call"
  /\ ~TooShort(query)
  /\ \E response \in SearchResponses :
       /\ response.status_code = OK
       /\ search_response' = response
       /\ search_result' = FormatResults(response.results)
  /\ search_requests' = Append(search_requests, query)
  /\ search_pc' = "returned"
  /\ UNCHANGED query

SearchNext ==
  \/ SearchTooShort
  \/ SearchFails
  \/ SearchSucceeds

SearchSpec == SearchInit /\ [][SearchNext]_vars

\* C10: search_authors returns the empty list and issues no request for a query
\* that is empty or shorter than 3 characters; a request is issued only for a
\* query of 3 characters or more, once and for that query, and a response to it
\* with a status other than 200 gives the empty list as well.
C10_ShortQueryNoRequest ==
  /\ search_requests # <<>> => Len(query) >= 3 /\ search_requests = <<query>>
  /\ search_pc = "returned" =>
       /\ Len(query) < 3 => search_result = <<>> /\ search_requests = <<>>
       /\ Len(query) >= 3 => search_requests = <<query>>
       /\ (search_requests # <<>> /\ search_response.status_code # 200) =>
            search_result = <<>>

\* A query of two characters has returned the empty list without a request.
C10_Witness ==
  /\ search_pc = "returned"
  /\ Len(query) = 2
  /\ search_result = <<>>
  /\ search_requests = <<>>

\* ----------------------- single calls: get_author_position (202-220)

\* Bounds of the model.
MaxAuthors == 3      \* a work handed to get_author_position has at most MaxAuthors authorships
MaxLocations == 2    \* a work handed to get_venue has at most MaxLocations locations

\* An empty dict, and an empty list that is there (not None).
EmptyDict == <<>>
EmptyList == <<<<>>>>

\* The display names of the authors: X and Y bear the same name.
CollaboratorName(id) ==
  IF id \in {"X", "Y"} THEN "J. Smith" ELSE "name-" \o id

\* An authorship entry of a work: its author record carries id and display_name.
AuthorshipOf(id) ==
  [author |-> [id |-> id, display_name |-> CollaboratorName(id)]]

\* Entries whose author record has no identifier, and that have no author record.
AuthorshipNoId == [author |-> [display_name |-> "name-0"]]
AuthorshipNoAuthor == [raw_author_name |-> "name-0"]

\* The works handed to get_author_position: authorships absent, None, or a
\* list of entries of the seed, of another author, or of the malformed kinds.
PositionWorks ==
  {[id |-> "W1"], [id |-> "W1", authorships |-> NoneDict]}
    \cup {[id |-> "W1", authorships |-> <<l>>] :
            l \in UNION {[1..n -> {AuthorshipOf(author_id), AuthorshipOf("X"),
                                   AuthorshipNoId, AuthorshipNoAuthor}] :
                           n \in 0..MaxAuthors}}

\* if not authors: None and the empty list are false.
NoAuthors(authors) == authors = NoneDict \/ authors[1] = <<>>

\* author.get('author', {}).get('id')
AuthorIdOf(authorship) == Get(Get(authorship, "author", EmptyDict), "id", None)

\* The branch on position, an index from 0, in a list of n authors.
PositionNameLastFirst(position, n) ==
  IF position = n - 1 THEN "Last Author"
  ELSE IF position = 0 THEN "First Author"
  ELSE "Middle Author"
PositionName(position, n) ==
  IF position = 0 THEN "First Author"
  ELSE IF position = n - 1 THEN "Last Author"
  ELSE "Middle Author"

get_author_position(work, a) ==
  LET authors == Get(work, "authorships", EmptyList)
  IN IF NoAuthors(authors) THEN "Unknown"
     ELSE LET author_positions ==
                {i \in 1..Len(authors[1]) : AuthorIdOf(authors[1][i]) = a}
          IN IF author_positions = {} THEN "Unknown"
             ELSE PositionName(
                    (CHOOSE i \in author_positions :
                       \A j \in author_positions : i <= j) - 1,
                    Len(authors[1]))

\* ----------------------------------- single calls: get_venue (192-200)

\* The first location's forms: without the key source, with source None, with
\* a source without display_name, with a source that has one.
LocationForms ==
  {[is_oa |-> TRUE],
   [source |-> NoneDict],
   [source |-> <<[id |-> "S1"]>>],
   [source |-> <<[id |-> "S1", display_name |-> "Venue 1"]>>],
   [source |-> <<[id |-> "S2", display_name |-> "Venue 2"]>>]}

\* The works handed to get_venue: locations absent, None, or a list.
VenueWorks ==
  {[id |-> "W1"], [id |-> "W1", locations |-> NoneDict]}
    \cup {[id |-> "W1", locations |-> <<l>>] :
            l \in UNION {[1..n -> LocationForms] : n \in 0..MaxLocations}}

Raised(exception) == [exception |-> exception, value |-> None]
Returned(value) == [exception |-> None, value |-> value]

\* The body of the try: work.get('locations', {})[0] raises KeyError on the
\* default {}, TypeError on None, IndexError on the empty list;
\* venue.get('source', {}) gives None for a source that is None, and
\* None.get raises AttributeError.
VenueLookup(work) ==
  IF "locations" \notin DOMAIN work THEN Raised("KeyError")
  ELSE IF work.locations = NoneDict THEN Raised("TypeError")
  ELSE IF work.locations[1] = <<>> THEN Raised("IndexError")
  ELSE LET source == Get(work.locations[1][1], "source", <<EmptyDict>>)
       IN IF source = NoneDict THEN Raised("AttributeError")
          ELSE Returned(Get(source[1], "display_name", "N/A"))

\* except: return 'N/A'
ExceptKeyError(outcome) ==
  IF outcome.exception = "KeyError" THEN Returned("N/A") ELSE outcome
Except(outcome) ==
  IF outcome.exception # None THEN Returned("N/A") ELSE outcome

get_venue(work) == Except(VenueLookup(work))

\* ------------- single calls: the collaborator charts (149-160, 288-366, 426-439)

\* Bound of the model.
MaxChartWorks == 2   \* the works list handed to a chart has at most MaxChartWorks works

\* The co-author entries of a work, after the entry of the seed: none, one or
\* two authors, one author twice, an entry without author record, entries
\* whose author record has no identifier.
CoauthorLists ==
  {<<>>,
   <<AuthorshipOf("X")>>,
   <<AuthorshipOf("X"), AuthorshipOf("Y")>>,
   <<AuthorshipOf("Y"), AuthorshipOf("Z")>>,
   <<AuthorshipOf("Z"), AuthorshipOf("Z")>>,
   <<AuthorshipNoAuthor, AuthorshipOf("X")>>,
   <<AuthorshipNoId, AuthorshipOf("Y")>>,
   <<AuthorshipNoId>>}

\* The works of the seed: with or without the key publication_year.
ChartWorkPool ==
  {[authorships |-> <<<<AuthorshipOf(author_id)>> \o l>>] : l \in CoauthorLists}
    \cup {[publication_year |-> y, authorships |-> <<<<AuthorshipOf(author_id)>> \o l>>] :
            y \in {2020, 2021}, l \in CoauthorLists}

ChartWorks == UNION {[1..n -> ChartWorkPool] : n \in 0..MaxChartWorks}

\* x.get('publication_year', 0), the sort key
YearKey(work) == Get(work, "publication_year", 0)

\* sorted(works, key=...): a stable sort, ascending.
RECURSIVE SortedByYear(_)
SortedByYear(wks) ==
  IF wks = <<>> THEN <<>>
  ELSE LET init == SortedByYear(SubSeq(wks, 1, Len(wks) - 1))
           last == wks[Len(wks)]
       IN SelectSeq(init, LAMBDA w : YearKey(w) <= YearKey(last))
            \o <<last>>
            \o SelectSeq(init, LAMBDA w : YearKey(w) > YearKey(last))

\* work.get('publication_year'); if not year: None and 0 are false.
NoYear(work) ==
  IF "publication_year" \in DOMAIN work THEN work.publication_year = 0 ELSE TRUE

\* author.get('author') and author['author'].get('id') != author_id
IsCollaboratorEntryAny(entry, a) ==
  "author" \in DOMAIN entry /\ DOMAIN entry.author # {}
IsCollaboratorEntry(entry, a) ==
  /\ "author" \in DOMAIN entry
  /\ DOMAIN entry.author # {}
  /\ Get(entry.author, "id", None) # a

\* The entries of work.get('authorships', []) that pass that test, in order.
CollaboratorEntries(work, a) ==
  LET authors == Get(work, "authorships", EmptyList)
  IN IF authors = NoneDict THEN <<>>
     ELSE SelectSeq(authors[1], LAMBDA entry : IsCollaboratorEntry(entry, a))

\* The values of author['author'].get('id') over those entries.
CollaboratorIds(work, a) ==
  {Get(CollaboratorEntries(work, a)[k].author, "id", None) :
     k \in 1..Len(CollaboratorEntries(work, a))}

\* The keys of a dict filled in ascending order of the keys, as a list.
RECURSIVE Ascending(_)
Ascending(keys) ==
  IF keys = {} THEN <<>>
  ELSE LET least == CHOOSE k \in keys : \A j \in keys : k <= j
       IN <<least>> \o Ascending(keys \ {least})

\* create_unique_collaborators_chart: yearly_collaborators after the loop.
RECURSIVE YearlyCollaborators(_, _, _)
YearlyCollaborators(sorted, a, yearly_collaborators) ==
  IF sorted = <<>> THEN yearly_collaborators
  ELSE LET work == Head(sorted)
       IN IF NoYear(work)
          THEN YearlyCollaborators(Tail(sorted), a, yearly_collaborators)
          ELSE LET year == work.publication_year
                   before == IF year \in DOMAIN yearly_collaborators
                             THEN yearly_collaborators[year] ELSE {}
               IN YearlyCollaborators(Tail(sorted), a,
                    (year :> (before \cup CollaboratorIds(work, a)))
                      @@ yearly_collaborators)

\* plot_data of create_unique_collaborators_chart: one row per year.
create_unique_collaborators_chart(wks, a) ==
  LET yearly_collaborators == YearlyCollaborators(SortedByYear(wks), a, <<>>)
      years == Ascending(DOMAIN yearly_collaborators)
  IN [k \in 1..Len(years) |->
        [Year |-> years[k],
         UniqueCollaborators |-> Cardinality(yearly_collaborators[years[k]])]]

\* create_new_collaborators_chart, one work: the entries in order, each
\* identifier not yet known counted and added.
NewCollaboratorsAll(entries, tally) ==
  [new_collabs_this_paper |-> tally.new_collabs_this_paper + Len(entries),
   known |-> tally.known \cup {Get(entries[k].author, "id", None) : k \in 1..Len(entries)}]

RECURSIVE NewCollaborators(_, _)
NewCollaborators(entries, tally) ==
  IF entries = <<>> THEN tally
  ELSE LET author_id_current == Get(Head(entries).author, "id", None)
       IN NewCollaborators(Tail(entries),
            IF author_id_current \notin tally.known
            THEN [new_collabs_this_paper |-> tally.new_collabs_this_paper + 1,
                  known |-> tally.known \cup {author_id_current}]
            ELSE tally)

\* get_collaborators: name and id of every collaborator entry of every work,
\* those without a name dropped.
RECURSIVE get_collaborators(_, _)
get_collaborators(wks, a) ==
  IF wks = <<>> THEN <<>>
  ELSE LET entries == CollaboratorEntries(Head(wks), a)
           collaborators ==
             [k \in 1..Len(entries) |->
                [name |-> Get(entries[k].author, "display_name", None),
                 id |-> Get(entries[k].author, "id", None)]]
       IN SelectSeq(collaborators, LAMBDA c : c.name # None)
            \o get_collaborators(Tail(wks), a)

\* create_collaboration_distribution_chart: collab_counts counts the entries
\* by name, freq_dist counts the names by count; plot_data has one row per
\* count, ascending.
create_collaboration_distribution_chart(wks, a) ==
  LET collaborators == get_collaborators(wks, a)
      names == {collaborators[k].name : k \in 1..Len(collaborators)}
      collab_counts == [n \in names |->
                          Cardinality({k \in 1..Len(collaborators) :
                                         collaborators[k].name = n})]
      counts == Ascending({collab_counts[n] : n \in names})
  IN [k \in 1..Len(counts) |->
        [NumberOfCollaborations |-> counts[k],
         Frequency |-> Cardinality({n \in names : collab_counts[n] = counts[k]})]]

\* ------- single calls: the tally of get_collaborator_network (524-537)

\* The batches handed to get_collaborator_network here: works of the seed, some
\* without the key authorships, some with entries without author record or
\* without identifier.
RecordBatches ==
  UNION {[1..n -> ChartWorkPool \cup {[publication_year |-> 2020]}] :
           n \in 0..MaxChartWorks}

\* authorship['author'] as the tally reads it: get('id'), get('display_name').
AuthorOf(entry) ==
  [id |-> Get(entry.author, "id", None),
   display_name |-> Get(entry.author, "display_name", None)]

\* for authorship in work['authorships']: authorship['author'] raises KeyError
\* when the entry has no author record.
RECURSIVE TallyEntries(_, _, _)
TallyEntries(entries, source_id, author_data) ==
  IF entries = <<>> THEN Returned(author_data)
  ELSE IF "author" \notin DOMAIN Head(entries) THEN Raised("KeyError")
  ELSE TallyEntries(Tail(entries), source_id,
                    TallyAuthorship(AuthorOf(Head(entries)), source_id, author_data))

\* for work in works: work['authorships'] raises KeyError when the work has
\* no authorships.
RECURSIVE TallyRecords(_, _, _)
TallyRecords(wks, source_id, author_data) ==
  IF wks = <<>> THEN Returned(author_data)
  ELSE IF "authorships" \notin DOMAIN Head(wks) THEN Raised("KeyError")
  ELSE LET outcome == TallyEntries(Head(wks).authorships[1], source_id, author_data)
       IN IF outcome.exception # None THEN outcome
          ELSE TallyRecords(Tail(wks), source_id, outcome.value)

\* ------------------------------------------------- single calls: the runs

CallInit ==
  /\ NetIdle /\ CciIdle /\ FetchIdle /\ DashIdle /\ SearchIdle /\ SessionIdle
  /\ call_pc = "call"
  /\ \/ call_fn = "get_author_position" /\ call_works \in {<<w>> : w \in PositionWorks}
     \/ call_fn = "get_venue" /\ call_works \in {<<w>> : w \in VenueWorks}
     \/ /\ call_fn \in {"create_unique_collaborators_chart",
                       "create_new_collaborators_chart",
                       "create_collaboration_distribution_chart"}
        /\ call_works \in ChartWorks
     \/ call_fn = "get_collaborator_network" /\ call_works \in RecordBatches
  /\ call_result = None
  /\ call_fault = None
  /\ sorted_works = <<>>
  /\ known_collaborators = {}
  /\ yearly_new_collabs = <<>>
  /\ yearly_paper_count = <<>>

GetAuthorPosition ==
  /\ UNCHANGED <<netVars, cciVars, fetchVars, dashVars, searchVars, sessionVars>>
  /\ call_fn = "get_author_position" /\ call_pc = "call"
  /\ call_result' = get_author_position(call_works[1], author_id)
  /\ call_pc' = "returned"
  /\ UNCHANGED <<call_fn, call_works, call_fault, sorted_works, known_collaborators,
                 yearly_new_collabs, yearly_paper_count>>

GetVenue ==
  /\ UNCHANGED <<netVars, cciVars, fetchVars, dashVars, searchVars, sessionVars>>
  /\ call_fn = "get_venue" /\ call_pc = "call"
  /\ call_result' = get_venue(call_works[1]).value
  /\ call_fault' = get_venue(call_works[1]).exception
  /\ call_pc' = IF get_venue(call_works[1]).exception = None THEN "returned" ELSE "raised"
  /\ UNCHANGED <<call_fn, call_works, sorted_works, known_collaborators,
                 yearly_new_collabs, yearly_paper_count>>

CreateUniqueCollaboratorsChart ==
  /\ UNCHANGED <<netVars, cciVars, fetchVars, dashVars, searchVars, sessionVars>>
  /\ call_fn = "create_unique_collaborators_chart" /\ call_pc = "call"
  /\ call_result' = create_unique_collaborators_chart(call_works, author_id)
  /\ call_pc' = "returned"
  /\ UNCHANGED <<call_fn, call_works, call_fault, sorted_works, known_collaborators,
                 yearly_new_collabs, yearly_paper_count>>

CreateCollaborationDistributionChart ==
  /\ UNCHANGED <<netVars, cciVars, fetchVars, dashVars, searchVars, sessionVars>>
  /\ call_fn = "create_collaboration_distribution_chart" /\ call_pc = "call"
  /\ call_result' = create_collaboration_distribution_chart(call_works, author_id)
  /\ call_pc' = "returned"
  /\ UNCHANGED <<call_fn, call_works, call_fault, sorted_works, known_collaborators,
                 yearly_new_collabs, yearly_paper_count>>

\* create_new_collaborators_chart up to its loop: the works are sorted.
SortWorks ==
  /\ UNCHANGED <<netVars, cciVars, fetchVars, dashVars, searchVars, sessionVars>>
  /\ call_fn = "create_new_collaborators_chart" /\ call_pc = "call"
  /\ sorted_works' = SortedByYear(call_works)
  /\ call_pc' = "loop"
  /\ UNCHANGED <<call_fn, call_works, call_result, call_fault, known_collaborators,
                 yearly_new_collabs, yearly_paper_count>>

\* One pass of the loop for a work without year: continue.
SkipWork ==
  /\ UNCHANGED <<netVars, cciVars, fetchVars, dashVars, searchVars, sessionVars>>
  /\ call_fn = "create_new_collaborators_chart" /\ call_pc = "loop"
  /\ sorted_works # <<>>
  /\ NoYear(Head(sorted_works))
  /\ sorted_works' = Tail(sorted_works)
  /\ UNCHANGED <<call_fn, call_pc, call_works, call_result, call_fault,
                 known_collaborators, yearly_new_collabs, yearly_paper_count>>

\* One pass of the loop for a work with a year.
CountWork ==
  /\ UNCHANGED <<netVars, cciVars, fetchVars, dashVars, searchVars, sessionVars>>
  /\ call_fn = "create_new_collaborators_chart" /\ call_pc = "loop"
  /\ sorted_works # <<>>
  /\ ~NoYear(Head(sorted_works))
  /\ LET work == Head(sorted_works)
         year == work.publication_year
         tally == NewCollaborators(CollaboratorEntries(work, author_id),
                    [new_collabs_this_paper |-> 0, known |-> known_collaborators])
         new_before == IF year \in DOMAIN yearly_new_collabs
                       THEN yearly_new_collabs[year] ELSE 0
         count_before == IF year \in DOMAIN yearly_paper_count
                         THEN yearly_paper_count[year] ELSE 0
     IN /\ known_collaborators' = tally.known
        /\ yearly_new_collabs' =
             (year :> (new_before + tally.new_collabs_this_paper)) @@ yearly_new_collabs
        /\ yearly_paper_count' = (year :> (count_before + 1)) @@ yearly_paper_count
  /\ sorted_works' = Tail(sorted_works)
  /\ UNCHANGED <<call_fn, call_pc, call_works, call_result, call_fault>>

\* After the loop: plot_data, one row per year with the mean as a fraction.
ReturnNewCollaborators ==
  /\ UNCHANGED <<netVars, cciVars, fetchVars, dashVars, searchVars, sessionVars>>
  /\ call_fn = "create_new_collaborators_chart" /\ call_pc = "loop"
  /\ sorted_works = <<>>
  /\ LET years == Ascending(DOMAIN yearly_new_collabs)
     IN call_result' = [k \in 1..Len(years) |->
                          [Year |-> years[k],
                           MeanNewCollaborators |->
                             [num |-> yearly_new_collabs[years[k]],
                              den |-> yearly_paper_count[years[k]]]]]
  /\ call_pc' = "returned"
  /\ UNCHANGED <<call_fn, call_works, call_fault, sorted_works, known_collaborators,
                 yearly_new_collabs, yearly_paper_count>>

\* get_collaborator_network up to the end of the tally of the seed's batch:
\* nothing catches an exception of the tally, it leaves the function.
TallySeedBatch ==
  /\ UNCHANGED <<netVars, cciVars, fetchVars, dashVars, searchVars, sessionVars>>
  /\ call_fn = "get_collaborator_network" /\ call_pc = "call"
  /\ \E outcome \in {TallyRecords(call_works, author_id, <<>>)} :
       /\ call_result' = outcome.value
       /\ call_fault' = outcome.exception
       /\ call_pc' = IF outcome.exception = None THEN "tallied" ELSE "raised"
  /\ UNCHANGED <<call_fn, call_works, sorted_works, known_collaborators,
                 yearly_new_collabs, yearly_paper_count>>

CallNext ==
  \/ TallySeedBatch
  \/ GetAuthorPosition
  \/ GetVenue
  \/ CreateUniqueCollaboratorsChart
  \/ CreateCollaborationDistributionChart
  \/ SortWorks
  \/ SkipWork
  \/ CountWork
  \/ ReturnNewCollaborators

CallSpec == CallInit /\ [][CallNext]_vars

\* ------------------------------------------------ single calls: the claims

\* Whether authorship i (from 1) of the list carries identifier a.
Carries(authorships, i, a) ==
  /\ "author" \in DOMAIN authorships[i]
  /\ "id" \in DOMAIN authorships[i].author
  /\ authorships[i].author.id = a

\* The authorships of a work, the empty list when they are absent or None.
AuthorshipsOf(work) ==
  IF "authorships" \in DOMAIN work /\ work.authorships # NoneDict
  THEN work.authorships[1] ELSE <<>>

VenueNameAbsent(work) ==
  \/ "locations" \notin DOMAIN work
  \/ work.locations = NoneDict
  \/ work.locations[1] = <<>>
  \/ "source" \notin DOMAIN work.locations[1][1]
  \/ work.locations[1][1].source = NoneDict
  \/ "display_name" \notin DOMAIN work.locations[1][1].source[1]

\* C16: get_venue never raises, whatever is missing in locations or in the
\* first location's source, and returns 'N/A' whenever the venue name is
\* absent (the name of the first location's source otherwise).
C16_VenueNeverRaises ==
  (call_fn = "get_venue" /\ call_pc # "call") =>
    /\ call_pc = "returned" /\ call_fault = None
    /\ VenueNameAbsent(call_works[1]) => call_result = "N/A"
    /\ ~VenueNameAbsent(call_works[1]) =>
         call_result = call_works[1].locations[1][1].source[1].display_name

\* get_venue has returned 'N/A' for a work whose first location has a source
\* that is None.
C16_Witness ==
  /\ call_fn = "get_venue" /\ call_pc = "returned"
  /\ call_works[1] \in VenueWorks
  /\ "locations" \in DOMAIN call_works[1]
  /\ call_works[1].locations # NoneDict
  /\ call_works[1].locations[1] # <<>>
  /\ "source" \in DOMAIN call_works[1].locations[1][1]
  /\ call_works[1].locations[1][1].source = NoneDict
  /\ call_result = "N/A"

\* The co-author identifiers of a work, the seed excluded: the identifier of
\* every entry that has an author record, None standing for the identifier of
\* a record that has none.
CoauthorIdentifiers(work) ==
  LET l == AuthorshipsOf(work)
  IN {IF "id" \in DOMAIN l[i].author THEN l[i].author.id ELSE None :
        i \in {j \in 1..Len(l) : "author" \in DOMAIN l[j]}} \ {author_id}

HasYear(work) == "publication_year" \in DOMAIN work

\* What a dict holds for a year, 0 when the year is not a key.
Held(dict, year) == IF year \in DOMAIN dict THEN dict[year] ELSE 0

\* One pass of the loop of create_new_collaborators_chart, for the work w.
PassGrowsKnownSet(w) ==
  /\ known_collaborators \subseteq known_collaborators'
  /\ IF HasYear(w)
     THEN /\ known_collaborators' = known_collaborators \cup CoauthorIdentifiers(w)
          /\ Held(yearly_new_collabs', w.publication_year)
               = Held(yearly_new_collabs, w.publication_year)
                 + Cardinality(CoauthorIdentifiers(w) \ known_collaborators)
          /\ Held(yearly_paper_count', w.publication_year)
               = Held(yearly_paper_count, w.publication_year) + 1
          /\ \A y \in DOMAIN yearly_new_collabs' \ {w.publication_year} :
               /\ Held(yearly_new_collabs', y) = Held(yearly_new_collabs, y)
               /\ Held(yearly_paper_count', y) = Held(yearly_paper_count, y)
     ELSE UNCHANGED <<known_collaborators, yearly_new_collabs, yearly_paper_count>>

\* In the loop the works come in ascending order of year, every total is
\* non-negative and every year counted has at least one paper; every mean
\* returned is non-negative.
TotalsNonNegative ==
  call_fn = "create_new_collaborators_chart" =>
    /\ \A k \in 1..Len(sorted_works) - 1 :
         YearKey(sorted_works[k]) <= YearKey(sorted_works[k + 1])
    /\ DOMAIN yearly_paper_count = DOMAIN yearly_new_collabs
    /\ \A y \in DOMAIN yearly_new_collabs :
         yearly_new_collabs[y] >= 0 /\ yearly_paper_count[y] >= 1
    /\ call_pc = "returned" =>
         \A k \in 1..Len(call_result) :
           /\ call_result[k].MeanNewCollaborators.num >= 0
           /\ call_result[k].MeanNewCollaborators.den >= 1

WorksOfYear(wks, y) ==
  SelectSeq(wks, LAMBDA w : HasYear(w) /\ w.publication_year = y)

RECURSIVE Reversed(_)
Reversed(seq) ==
  IF seq = <<>> THEN <<>> ELSE Append(Reversed(Tail(seq)), Head(seq))

\* Paper A (2020, co-authors X, Y) and paper B (2020, co-authors Y, Z).
TwoPaperCorpus ==
  <<[publication_year |-> 2020,
     authorships |-> <<<<AuthorshipOf(author_id), AuthorshipOf("X"), AuthorshipOf("Y")>>>>],
    [publication_year |-> 2020,
     authorships |-> <<<<AuthorshipOf(author_id), AuthorshipOf("Y"), AuthorshipOf("Z")>>>>]>>

WorksWith(wks, id) ==
  Cardinality({i \in 1..Len(wks) : id \in CoauthorIdentifiers(wks[i])})

\* The histogram entry for K, 0 when K has no row.
EntryFor(rows, K) ==
  IF \E k \in 1..Len(rows) : rows[k].NumberOfCollaborations = K
  THEN (CHOOSE r \in {rows[k] : k \in 1..Len(rows)} : r.NumberOfCollaborations = K).Frequency
  ELSE 0

RECURSIVE WeightedSum(_)
WeightedSum(rows) ==
  IF rows = <<>> THEN 0
  ELSE Head(rows).NumberOfCollaborations * Head(rows).Frequency + WeightedSum(Tail(rows))

\* C14: the histogram entry for K is the number of distinct collaborator
\* identifiers (seed excluded) that occur on exactly K works, two identifiers
\* counted apart even under one display name; the sum of K times the entry
\* for K is the number of collaborator entries counted.
C14_DistinctCollaborators ==
  (call_fn = "create_collaboration_distribution_chart" /\ call_pc = "returned") =>
    LET ids == UNION {CoauthorIdentifiers(call_works[i]) : i \in 1..Len(call_works)}
    IN /\ \A K \in 1..MaxChartWorks :
            EntryFor(call_result, K)
              = Cardinality({id \in ids \ {None} : WorksWith(call_works, id) = K})
       /\ WeightedSum(call_result) = Len(get_collaborators(call_works, author_id))

\* The entries of a batch that have an author record, work by work.
WellFormedPart(wks) ==
  [i \in 1..Len(wks) |->
     [authorships |->
        LET l == SelectSeq(AuthorshipsOf(wks[i]), LAMBDA entry : "author" \in DOMAIN entry)
        IN [k \in 1..Len(l) |-> AuthorOf(l[k])]]]

\* C15: a malformed record never makes get_collaborator_network fault: a work
\* without authorships, an entry without author record or without identifier
\* is skipped by the tally, which goes on with the other records.
C15_MalformedSkipped ==
  (call_fn = "get_collaborator_network" /\ call_pc # "call") =>
    /\ call_fault = None
    /\ call_pc = "tallied"
    /\ call_result = TallyWorks(WellFormedPart(call_works), author_id, <<>>)

\* ----------------------- the search and selection part of the script (668-714)

\* The texts typed into the search input in a session: two that are too short
\* and three that are searched.
SessionQueries ==
  {<<>>, <<"a", "b">>, <<"a", "b", "a">>, <<"a", "b", "b">>, <<"b", "b", "b">>}

\* The answers of the remote source to a search in a session.
SessionResponses ==
  {[status_code |-> 404, results |-> <<>>],
   [status_code |-> OK, results |-> <<>>],
   [status_code |-> OK, results |-> <<CHOOSE a \in SearchPool : a.id = "A1">>],
   [status_code |-> OK, results |-> <<CHOOSE a \in SearchPool : a.id = "A1",
                                      CHOOSE a \in SearchPool : a.id = "A2">>]}

\* search_authors(query), the remote source answering with response.
search_authors(q, response) ==
  IF TooShort(q) THEN <<>>
  ELSE IF response.status_code = OK THEN FormatResults(response.results)
  ELSE <<>>

\* options.keys(): 'Select Author', then the labels of the results.
OptionKeys(results) ==
  <<"Select Author">> \o Distinct([k \in 1..Len(results) |-> results[k].label])

\* options[selected]: the last result that bears the label.
OptionOf(results, label) ==
  results[CHOOSE k \in 1..Len(results) :
            /\ results[k].label = label
            /\ \A j \in 1..Len(results) : results[j].label = label => j <= k]

\* The value of the selectbox in a run that shows it with the keys `keys`:
\* the user's choice when there is one, else the value the widget had when
\* the last run showed it with the same keys, else the first key (index=0).
SelectboxValue(keys, choice) ==
  IF choice # None THEN choice
  ELSE IF selectbox # NoneDict /\ selectbox[1].keys = keys THEN selectbox[1].value
  ELSE keys[1]

\* One run of the script, lines 686-718, with `text` in the search input and
\* the user's `choice` in the selectbox (None when the user made none).
ScriptRun(text, choice) ==
  LET changed == text # search_query
      results == IF changed
                 THEN IF Len(text) >= MinLength THEN search_authors(text, remote[text])
                      ELSE <<>>
                 ELSE search_results
      kept == IF changed /\ Len(text) < MinLength THEN NoneDict ELSE selected_author
      selected == SelectboxValue(OptionKeys(results), choice)
  IN /\ search_query' = text
     /\ search_results' = results
     /\ IF results # <<>>
        THEN /\ selectbox' = <<[keys |-> OptionKeys(results), value |-> selected]>>
             /\ selected_author' = IF selected # "Select Author"
                                   THEN <<OptionOf(results, selected)>>
                                   ELSE NoneDict
        ELSE /\ selectbox' = NoneDict
             /\ selected_author' = kept
     /\ rendered' = IF selected_author' # NoneDict THEN selected_author'[1].id ELSE None
     /\ UNCHANGED remote

\* The state after the first run of the script: the session state is
\* initialised, the search input is empty.
SessionInit ==
  /\ NetIdle /\ CciIdle /\ FetchIdle /\ DashIdle /\ SearchIdle /\ CallIdle
  /\ search_query = <<>>
  /\ search_results = <<>>
  /\ selected_author = NoneDict
  /\ selectbox = NoneDict
  /\ remote \in [{q \in SessionQueries : Len(q) >= MinLength} -> SessionResponses]
  /\ rendered = None

\* The user changes the text of the search input: the script runs.
ChangeQuery ==
  /\ UNCHANGED <<netVars, cciVars, fetchVars, dashVars, searchVars, callVars>>
  /\ \E text \in SessionQueries \ {search_query} : ScriptRun(text, None)

\* The user chooses another entry of the selectbox: the script runs.
ChooseAuthor ==
  /\ UNCHANGED <<netVars, cciVars, fetchVars, dashVars, searchVars, callVars>>
  /\ selectbox # NoneDict
  /\ \E k \in 1..Len(selectbox[1].keys) :
       /\ selectbox[1].keys[k] # selectbox[1].value
       /\ ScriptRun(search_query, selectbox[1].keys[k])

SessionNext ==
  \/ ChangeQuery
  \/ ChooseAuthor

SessionSpec == SessionInit /\ [][SessionNext]_vars

\* C19: after any sequence of script runs, a selected author is one of the
\* current search_results, which are the results of the current search_query;
\* a query of 3 characters or more without results leaves no author selected
\* and no dashboard rendered, and a query of fewer than 3 characters leaves
\* search_results empty and no author selected.
C19_SelectionFollowsResults ==
  /\ selected_author # NoneDict =>
       \E k \in 1..Len(search_results) : search_results[k] = selected_author[1]
  /\ search_results = IF Len(search_query) >= 3
                      THEN search_authors(search_query, remote[search_query])
                      ELSE <<>>
  /\ (Len(search_query) >= 3 /\ search_results = <<>>) =>
       selected_author = NoneDict /\ rendered = None
  /\ Len(search_query) < 3 => search_results = <<>> /\ selected_author = NoneDict
====
